---------------------------- MODULE Spec2Model ----------------------------
(***************************************************************************)
(* Road surface evaluator of libOpenDRIVE (src/Road.cpp): the queries      *)
(* Crossfall::get_crossfall, Road::get_lanesections, Road::get_lanesection,*)
(* Road::get_transformation_matrix, Road::get_xyz and Road::get_surface_pt *)
(* over a Road that was populated by the loader.                           *)
(*                                                                         *)
(* A `double` is modelled by an exact rational <<n, d>> (d > 0, lowest     *)
(* terms); rounding is not modelled.  A Vec3D is a rational vector v with  *)
(* a radicand n2, standing for v / sqrt(n2), so that normalize() is exact. *)
(***************************************************************************)
EXTENDS Integers, Sequences, FiniteSets, TLC

VARIABLES road, out, last

vars == <<road, out, last>>

-----------------------------------------------------------------------------
(* double arithmetic, exact                                                *)

Abs(i) == IF i < 0 THEN -i ELSE i

RECURSIVE GCD(_, _)
GCD(a, b) == IF b = 0 THEN a ELSE GCD(b, a % b)

\* n/d in lowest terms with d > 0, g the gcd of |n| and |d|
Reduce(n, d, g) == IF d < 0 THEN <<(-n) \div g, (-d) \div g>> ELSE <<n \div g, d \div g>>

R(n, d) == Reduce(n, d, GCD(Abs(n), Abs(d)))

Z(i) == <<i, 1>>

RNeg(a) == <<-a[1], a[2]>>

AddOver(a, b, g) ==
    R(a[1] * (b[2] \div g) + b[1] * (a[2] \div g), (a[2] \div g) * b[2])

RAdd(a, b) == AddOver(a, b, GCD(a[2], b[2]))

RSub(a, b) == RAdd(a, RNeg(b))

MulOver(a, b, g1, g2) ==
    <<(a[1] \div g1) * (b[1] \div g2), (a[2] \div g2) * (b[2] \div g1)>>

RMul(a, b) == MulOver(a, b, GCD(Abs(a[1]), b[2]), GCD(Abs(b[1]), a[2]))

RDiv(a, b) == RMul(a, IF b[1] < 0 THEN <<-b[2], -b[1]>> ELSE <<b[2], b[1]>>)

RAbs(a) == <<Abs(a[1]), a[2]>>

RLess(a, b) == a[1] * b[2] < b[1] * a[2]

RLeq(a, b) == a[1] * b[2] <= b[1] * a[2]

\* std::tan, by its Maclaurin series to third order: x + x^3/3
Tan(x) == RAdd(x, RDiv(RMul(x, RMul(x, x)), Z(3)))

-----------------------------------------------------------------------------
(* std::map<double, T>: a function whose domain is the set of keys; an     *)
(* iterator is a key, or End                                               *)

End == << >>

MapBegin(m) ==
    IF DOMAIN m = {} THEN End
    ELSE CHOOSE k \in DOMAIN m : \A j \in DOMAIN m : RLeq(k, j)

UpperBound(m, s) ==
    LET above == {k \in DOMAIN m : RLess(s, k)}
    IN  IF above = {} THEN End
        ELSE CHOOSE k \in above : \A j \in above : RLeq(k, j)

IterPrev(m, it) ==
    LET below == IF it = End THEN DOMAIN m ELSE {k \in DOMAIN m : RLess(k, it)}
    IN  CHOOSE k \in below : \A j \in below : RLeq(j, k)

IterNext(m, it) == UpperBound(m, it)

\* upper_bound(s), stepped back once unless it is begin(): lines 18-20, 59-61, 125-127
TargetIter(m, s) ==
    LET it == UpperBound(m, s)
    IN  IF it # MapBegin(m) THEN IterPrev(m, it) ELSE it

-----------------------------------------------------------------------------
(* Poly3 and CubicSpline                                                   *)

Poly3(s0, a, b, c, d) == [s0 |-> s0, a |-> a, b |-> b, c |-> c, d |-> d]

Poly3_get(p, s) ==
    LET u == RSub(s, p.s0)
    IN  RAdd(p.a, RMul(u, RAdd(p.b, RMul(u, RAdd(p.c, RMul(u, p.d))))))

Poly3_get_grad(p, s) ==
    LET u == RSub(s, p.s0)
    IN  RAdd(p.b, RMul(u, RAdd(RMul(Z(2), p.c), RMul(u, RMul(Z(3), p.d)))))

CubicSpline_get(spl, s) ==
    IF DOMAIN spl = {} THEN Z(0) ELSE Poly3_get(spl[TargetIter(spl, s)], s)

CubicSpline_get_grad(spl, s) ==
    IF DOMAIN spl = {} THEN Z(0) ELSE Poly3_get_grad(spl[TargetIter(spl, s)], s)

-----------------------------------------------------------------------------
(* Vec3D, Mat3D and the Math helpers.  A Vec3D [v, n2] stands for the      *)
(* vector v / sqrt(n2); a matrix entry [c, r] stands for c / sqrt(r); the  *)
(* components of a product M * x are sums of such entries, kept as a       *)
(* function from the radicand r to the (nonzero) sum of the c over r.      *)

Vec3D(x, y, z) == [v |-> <<x, y, z>>, n2 |-> 1]

LCM(a, b) == (a \div GCD(a, b)) * b

\* the integer vector without common factor that points along v (v # 0)
Primitive(v) ==
    LET l == LCM(v[1][2], LCM(v[2][2], v[3][2]))
        w == [i \in 1..3 |-> v[i][1] * (l \div v[i][2])]
        g == GCD(Abs(w[1]), GCD(Abs(w[2]), Abs(w[3])))
    IN  [i \in 1..3 |-> w[i] \div g]

normalize(a) ==
    LET p == Primitive(a.v)
    IN  [v |-> <<Z(p[1]), Z(p[2]), Z(p[3])>>,
         n2 |-> p[1] * p[1] + p[2] * p[2] + p[3] * p[3]]

crossProduct(a, b) ==
    [v |-> <<RSub(RMul(a.v[2], b.v[3]), RMul(a.v[3], b.v[2])),
             RSub(RMul(a.v[3], b.v[1]), RMul(a.v[1], b.v[3])),
             RSub(RMul(a.v[1], b.v[2]), RMul(a.v[2], b.v[1]))>>,
     n2 |-> a.n2 * b.n2]

\* a[i] of the C++ (0-based) is At(a, i + 1)
At(a, i) == [c |-> a.v[i], r |-> a.n2]

NumZero == [r \in {} |-> Z(0)]

NumOf(e) == IF e.c[1] = 0 THEN NumZero ELSE [r \in {e.r} |-> e.c]

NumAdd(x, y) ==
    LET sum == [r \in DOMAIN x \cup DOMAIN y |->
                   RAdd(IF r \in DOMAIN x THEN x[r] ELSE Z(0),
                        IF r \in DOMAIN y THEN y[r] ELSE Z(0))]
    IN  [r \in {q \in DOMAIN sum : sum[q][1] # 0} |-> sum[r]]

Scale(e, k) == [c |-> RMul(e.c, k), r |-> e.r]

MatVecMultiplication(m, x) ==
    [i \in 1..3 |->
        NumAdd(NumOf(Scale(m[i][1], x[1])),
               NumAdd(NumOf(Scale(m[i][2], x[2])), NumOf(Scale(m[i][3], x[3]))))]

-----------------------------------------------------------------------------
(* RefLine: one Line piece from s = 0 with heading (hx, hy), |(hx, hy)| = 1,*)
(* lifted by the elevation profile                                         *)

RefLine_get_xyz(rl, s) ==
    Vec3D(RAdd(rl.x0, RMul(s, rl.hx)), RAdd(rl.y0, RMul(s, rl.hy)),
          CubicSpline_get(rl.elevation, s))

RefLine_get_grad(rl, s) ==
    Vec3D(rl.hx, rl.hy, CubicSpline_get_grad(rl.elevation, s))

-----------------------------------------------------------------------------
(* Road.cpp                                                                *)

NullPtr == << >>

Ptr(x) == <<x>>

Deref(p) == p[1]

\* the side test of lines 26-29 with Left and Right exchanged
Crossfall_get_crossfall_SwappedSides(cf, s, on_left_side) ==
    IF DOMAIN cf.s_start_to_poly # {}
    THEN LET target_poly_iter == TargetIter(cf.s_start_to_poly, s)
             side == IF target_poly_iter \in DOMAIN cf.sides
                     THEN cf.sides[target_poly_iter]
                     ELSE "Both"
         IN  IF on_left_side /\ side = "Left" THEN Z(0)
             ELSE IF ~on_left_side /\ side = "Right" THEN Z(0)
             ELSE Poly3_get(cf.s_start_to_poly[target_poly_iter], s)
    ELSE Z(0)

\* lines 12-35; the local poly of line 14 is never read
Crossfall_get_crossfall(cf, s, on_left_side) ==
    IF DOMAIN cf.s_start_to_poly # {}
    THEN LET target_poly_iter == TargetIter(cf.s_start_to_poly, s)
             side == IF target_poly_iter \in DOMAIN cf.sides
                     THEN cf.sides[target_poly_iter]
                     ELSE "Both"
         IN  IF on_left_side /\ side = "Right" THEN Z(0)
             ELSE IF ~on_left_side /\ side = "Left" THEN Z(0)
             ELSE Poly3_get(cf.s_start_to_poly[target_poly_iter], s)
    ELSE Z(0)

Road_get_lanesections(rd) ==
    {Ptr(rd.s_to_lanesection[k]) : k \in DOMAIN rd.s_to_lanesection}

\* lines 59-62 without the step back of line 61
Road_get_lanesection_const_NoStepBack(rd, s) ==
    IF DOMAIN rd.s_to_lanesection # {}
    THEN LET it == UpperBound(rd.s_to_lanesection, s)
         IN  Ptr(rd.s_to_lanesection[IF it = End
                                     THEN IterPrev(rd.s_to_lanesection, End)
                                     ELSE it])
    ELSE NullPtr

Road_get_lanesection_const(rd, s) ==
    IF DOMAIN rd.s_to_lanesection # {}
    THEN Ptr(rd.s_to_lanesection[TargetIter(rd.s_to_lanesection, s)])
    ELSE NullPtr

Road_get_lanesection(rd, s) == Road_get_lanesection_const(rd, s)

\* line 91: the rows of trans_mat
TransMat(e_t, e_h, p0) ==
    <<<<At(e_t, 1), At(e_h, 1), At(p0, 1)>>,
      <<At(e_t, 2), At(e_h, 2), At(p0, 2)>>,
      <<At(e_t, 3), At(e_h, 3), At(p0, 3)>>>>

\* line 87
LateralAxis(s_vec, superelevation) ==
    normalize(Vec3D(RNeg(s_vec.v[2]), s_vec.v[1],
                    RMul(Tan(superelevation), RAbs(s_vec.v[2]))))

\* line 88 with the factors of the cross product exchanged
SurfaceNormal_Swapped(s_vec, e_t) == normalize(crossProduct(e_t, s_vec))

\* line 88
SurfaceNormal(s_vec, e_t) == normalize(crossProduct(s_vec, e_t))

\* lines 88-93, with s_vec, e_t and p0 of lines 84-89
FrameOf(s_vec, e_t, p0) == TransMat(e_t, SurfaceNormal(s_vec, e_t), p0)

\* lines 85-93, with s_vec of line 84
FrameAlong(rd, s, s_vec) ==
    FrameOf(s_vec, LateralAxis(s_vec, CubicSpline_get(rd.superelevation, s)),
            RefLine_get_xyz(rd.ref_line, s))

Road_get_transformation_matrix(rd, s) ==
    FrameAlong(rd, s, RefLine_get_grad(rd.ref_line, s))

Road_get_xyz(rd, s, t, h) ==
    MatVecMultiplication(Road_get_transformation_matrix(rd, s), <<t, h, Z(1)>>)

\* LaneSection::get_lane(s, t): the lane on the side of t whose border interval
\* at s holds t, scanning outwards; the outermost lane of that side otherwise
LaneSection_get_lane(ls, s, t) ==
    LET left == 0 < t[1]
        side == {i \in DOMAIN ls.id_to_lane : IF left THEN i > 0 ELSE i < 0}
        holds(i) ==
            LET a == CubicSpline_get(ls.id_to_lane[i].inner_border, s)
                b == CubicSpline_get(ls.id_to_lane[i].outer_border, s)
            IN  IF left THEN RLeq(a, t) /\ RLeq(t, b) ELSE RLeq(b, t) /\ RLeq(t, a)
        hit == {i \in side : holds(i)}
        id == IF hit # {}
              THEN CHOOSE i \in hit : \A j \in hit : Abs(i) <= Abs(j)
              ELSE CHOOSE i \in side : \A j \in side : Abs(j) <= Abs(i)
    IN  Ptr(ls.id_to_lane[id])

\* line 114 with the crossfall, not the superelevation, applied outwards
LateralSlope_CrossfallOutward(rd, lane, s, t, t_inner_brdr, crossfall) ==
    IF lane.level
    THEN RAdd(RMul(RNeg(Tan(crossfall)), RAbs(t_inner_brdr)),
              RMul(Tan(crossfall), RSub(t, t_inner_brdr)))
    ELSE RMul(RNeg(Tan(crossfall)), RAbs(t))

\* lines 110-119, with t_inner_brdr of line 107 and the crossfall angle
LateralSlope(rd, lane, s, t, t_inner_brdr, crossfall) ==
    IF lane.level
    THEN LET h_inner_brdr == RMul(RNeg(Tan(crossfall)), RAbs(t_inner_brdr))
             superelev == CubicSpline_get(rd.superelevation, s)
         IN  RAdd(h_inner_brdr, RMul(Tan(superelev), RSub(t, t_inner_brdr)))
    ELSE RMul(RNeg(Tan(crossfall)), RAbs(t))

\* lines 107-119: the lateral-slope height h_t before any height offset
LateralSlopeHeight(rd, lane, s, t) ==
    LateralSlope(rd, lane, s, t, CubicSpline_get(lane.inner_border, s),
                 Crossfall_get_crossfall(rd.crossfall, s, lane.id > 0))

\* line 132, with the borders of lines 107 and 129
LaneParamOf(t, t_inner_brdr, t_outer_brdr) ==
    IF t_outer_brdr # t_inner_brdr
    THEN RDiv(RSub(t, t_inner_brdr), RSub(t_outer_brdr, t_inner_brdr))
    ELSE Z(0)

LaneParam(lane, s, t) ==
    LaneParamOf(t, CubicSpline_get(lane.inner_border, s),
                CubicSpline_get(lane.outer_border, s))

\* lines 133 and 144 adding p_t * outer to inner
Blend_Sum(p_t, inner, outer) == RAdd(RMul(p_t, outer), inner)

\* lines 133 and 144: the two additions to h_t
Blend(p_t, inner, outer) == RAdd(RMul(p_t, RSub(outer, inner)), inner)

\* lines 140 and 142 without the division by ds
Rise_NoDs(from, to, ds, s, s0) == RMul(RSub(to, from), RSub(s, s0))

\* lines 138-142: d_lh / ds * (s - s0)
Rise(from, to, ds, s, s0) == RMul(RDiv(RSub(to, from), ds), RSub(s, s0))

\* lines 135-145 skipped for s below the selected entry
HeightOffsetWith_Clamped(height_offs, it, next, s, p_t) ==
    IF next # End /\ ~RLess(s, it)
    THEN RAdd(RAdd(RMul(p_t, RSub(height_offs[it].outer, height_offs[it].inner)),
                   height_offs[it].inner),
              RMul(RDiv(RSub(s, it), RSub(next, it)),
                   RAdd(RMul(p_t, RSub(RSub(height_offs[next].outer, height_offs[it].outer),
                                       RSub(height_offs[next].inner, height_offs[it].inner))),
                        RSub(height_offs[next].inner, height_offs[it].inner))))
    ELSE RAdd(RMul(p_t, RSub(height_offs[it].outer, height_offs[it].inner)),
              height_offs[it].inner)

\* lines 130-145, with the entry, its successor and p_t
HeightOffsetWith(height_offs, it, next, s, p_t) ==
    IF next # End
    THEN RAdd(Blend(p_t, height_offs[it].inner, height_offs[it].outer),
              Blend(p_t,
                    Rise(height_offs[it].inner, height_offs[next].inner,
                         RSub(next, it), s, it),
                    Rise(height_offs[it].outer, height_offs[next].outer,
                         RSub(next, it), s, it)))
    ELSE Blend(p_t, height_offs[it].inner, height_offs[it].outer)

\* lines 129-145: what is added to h_t with the entry at s0_height_offs_iter
HeightOffsetAt(lane, s0_height_offs_iter, s, t) ==
    HeightOffsetWith(lane.s_to_height_offset, s0_height_offs_iter,
                     IterNext(lane.s_to_height_offset, s0_height_offs_iter), s,
                     LaneParam(lane, s, t))

\* lines 121-146
HeightOffsetContribution(lane, s, t) ==
    IF DOMAIN lane.s_to_height_offset # {}
    THEN HeightOffsetAt(lane, TargetIter(lane.s_to_height_offset, s), s, t)
    ELSE Z(0)

\* "%.2f" of printf: s to the nearest hundredth, in hundredths
FormatF2(s) == (2 * 100 * s[1] + s[2]) \div (2 * s[2])

\* line 101: the line printf writes to stdout
SurfaceDiagnostic(rd, s) == <<[road |-> rd.id, s |-> FormatF2(s)]>>

\* line 101 reached also when a lane section was found
SurfaceResult_Logs(rd, s, t, lane, h_lat, h_off) ==
    [xyz |-> Road_get_xyz(rd, s, t, RAdd(h_lat, h_off)),
     printed |-> SurfaceDiagnostic(rd, s),
     lane |-> Ptr(lane), h_lat |-> h_lat, h_off |-> h_off]

\* line 148; lane, h_lat and h_off are the locals at the return
SurfaceResult(rd, s, t, lane, h_lat, h_off) ==
    [xyz |-> Road_get_xyz(rd, s, t, RAdd(h_lat, h_off)), printed |-> << >>,
     lane |-> Ptr(lane), h_lat |-> h_lat, h_off |-> h_off]

\* lines 107-148
SurfaceOnLane(rd, s, t, lane) ==
    SurfaceResult(rd, s, t, lane, LateralSlopeHeight(rd, lane, s, t),
                  HeightOffsetContribution(lane, s, t))

\* lines 99-103 without the printf of line 101
SurfaceIn_Silent(rd, s, t, lanesection) ==
    IF lanesection = NullPtr
    THEN [xyz |-> Road_get_xyz(rd, s, t, Z(0)), printed |-> << >>,
          lane |-> NullPtr, h_lat |-> Z(0), h_off |-> Z(0)]
    ELSE SurfaceOnLane(rd, s, t, Deref(LaneSection_get_lane(Deref(lanesection), s, t)))

\* lines 99-148
SurfaceIn(rd, s, t, lanesection) ==
    IF lanesection = NullPtr
    THEN [xyz |-> Road_get_xyz(rd, s, t, Z(0)), printed |-> SurfaceDiagnostic(rd, s),
          lane |-> NullPtr, h_lat |-> Z(0), h_off |-> Z(0)]
    ELSE SurfaceOnLane(rd, s, t, Deref(LaneSection_get_lane(Deref(lanesection), s, t)))

Road_get_surface_pt(rd, s, t) ==
    SurfaceIn(rd, s, t, Road_get_lanesection_const(rd, s))

-----------------------------------------------------------------------------
(* The roads the loader may hand over, and the arguments of the queries    *)

MaxOut == 1

Stations == {Z(-5), Z(0), Z(5), Z(10), Z(15), Z(50)}

XyzLaterals == {Z(-3), Z(0), R(3, 2)}

Laterals == {Z(-3), R(-3, 2), Z(0), R(3, 2), Z(3), Z(5)}

Heights == {Z(0), R(-1, 2)}

Const(s0, a) == Poly3(s0, a, Z(0), Z(0), Z(0))

Map1(k, x) == [i \in {k} |-> x]

Map2(k1, x1, k2, x2) == [i \in {k1, k2} |-> IF i = k1 THEN x1 ELSE x2]

Map3(k1, x1, k2, x2, k3, x3) ==
    [i \in {k1, k2, k3} |-> IF i = k1 THEN x1 ELSE IF i = k2 THEN x2 ELSE x3]

Empty == [i \in {} |-> 0]

Elevations ==
    {Empty, Map1(Z(0), Poly3(Z(0), Z(1), R(1, 5), Z(0), Z(0)))}

RefLines ==
    {[x0 |-> Z(0), y0 |-> Z(0), hx |-> Z(1), hy |-> Z(0), length |-> Z(100),
      elevation |-> e] : e \in Elevations}
    \cup
    {[x0 |-> Z(2), y0 |-> Z(-1), hx |-> Z(0), hy |-> Z(1), length |-> Z(100),
      elevation |-> Empty],
     [x0 |-> Z(0), y0 |-> Z(0), hx |-> R(3, 5), hy |-> R(4, 5), length |-> Z(100),
      elevation |-> Map1(Z(0), Poly3(Z(0), Z(1), R(1, 5), Z(0), Z(0)))],
     [x0 |-> Z(0), y0 |-> Z(0), hx |-> R(3, 5), hy |-> R(-4, 5), length |-> Z(100),
      elevation |-> Empty]}

Superelevations ==
    {Empty,
     Map1(Z(0), Const(Z(0), R(1, 10))),
     Map2(Z(0), Const(Z(0), R(-1, 2)),
          Z(10), Poly3(Z(10), Z(0), R(1, 50), Z(0), Z(0)))}

Crossfalls ==
    {[s_start_to_poly |-> Empty, sides |-> Empty],
     [s_start_to_poly |-> Map1(Z(0), Const(Z(0), R(1, 20))),
      sides |-> Map1(Z(0), "Left")],
     [s_start_to_poly |-> Map2(Z(0), Const(Z(0), R(1, 20)),
                               Z(10), Poly3(Z(10), R(1, 20), R(1, 100), Z(0), Z(0))),
      sides |-> Map1(Z(10), "Right")],
     [s_start_to_poly |-> Map1(Z(5), Const(Z(5), R(-1, 10))),
      sides |-> Map2(Z(0), "Left", Z(5), "Both")]}

HeightOffset(inner, outer) == [inner |-> inner, outer |-> outer]

ExampleOffsets ==
    Map2(Z(0), HeightOffset(Z(0), R(1, 10)), Z(10), HeightOffset(R(1, 20), R(1, 5)))

HeightOffsetMaps ==
    {Empty,
     Map1(Z(0), HeightOffset(R(1, 10), R(1, 5))),
     ExampleOffsets,
     Map3(Z(5), HeightOffset(Z(0), R(1, 10)), Z(10), HeightOffset(R(1, 20), R(1, 5)),
          Z(15), HeightOffset(R(1, 20), Z(0)))}

Lane(id, inner, outer, level, ho) ==
    [id |-> id, inner_border |-> inner, outer_border |-> outer, level |-> level,
     s_to_height_offset |-> ho]

\* one left lane 0..3 and one right lane 0..-3
SectionA(level, ho) ==
    [s0 |-> Z(0),
     id_to_lane |->
        [i \in {-1, 1} |->
            Lane(i, Empty, Map1(Z(0), Const(Z(0), Z(3 * i))), level, ho)]]

\* from s = 10: a widening left lane, a left lane of width zero outside it,
\* and one right lane
SectionB(level, ho) ==
    LET edge == Map1(Z(10), Poly3(Z(10), R(3, 2), R(1, 10), Z(0), Z(0)))
    IN  [s0 |-> Z(10),
         id_to_lane |->
            [i \in {-1, 1, 2} |->
                IF i = 1 THEN Lane(1, Empty, edge, level, ho)
                ELSE IF i = 2 THEN Lane(2, edge, edge, level, ho)
                ELSE Lane(-1, Empty, Map1(Z(10), Const(Z(10), Z(-3))), ~level, ho)]]

LaneSectionMaps ==
    {Map1(Z(0), SectionA(l, ExampleOffsets)) : l \in BOOLEAN}
    \cup {Map2(Z(0), SectionA(l, ho), Z(10), SectionB(l, ho)) :
             l \in BOOLEAN, ho \in HeightOffsetMaps}

FlatLine ==
    [x0 |-> Z(0), y0 |-> Z(0), hx |-> Z(1), hy |-> Z(0), length |-> Z(100),
     elevation |-> Empty]

SlopedLine ==
    [x0 |-> Z(0), y0 |-> Z(0), hx |-> R(3, 5), hy |-> R(4, 5), length |-> Z(100),
     elevation |-> Map1(Z(0), Poly3(Z(0), Z(1), R(1, 5), Z(0), Z(0)))]

NoCrossfall == [s_start_to_poly |-> Empty, sides |-> Empty]

\* roads without lane sections, roads over every reference line and
\* superelevation, and roads over every crossfall and lane layout
Roads ==
    [id : {"7"}, length : {Z(100)}, ref_line : RefLines,
     superelevation : {Map1(Z(0), Const(Z(0), R(1, 10)))},
     crossfall : {NoCrossfall}, s_to_lanesection : {Empty}]
    \cup
    [id : {"7"}, length : {Z(100)}, ref_line : RefLines,
     superelevation : Superelevations, crossfall : {NoCrossfall},
     s_to_lanesection : {Map1(Z(0), SectionA(FALSE, ExampleOffsets))}]
    \cup
    [id : {"7"}, length : {Z(100)}, ref_line : {FlatLine, SlopedLine},
     superelevation : Superelevations, crossfall : Crossfalls,
     s_to_lanesection : LaneSectionMaps]

-----------------------------------------------------------------------------
(* The state: the road, the lines written to stdout, and the query that    *)
(* has just returned to the caller with its result                         *)

NoCall == [op |-> "none"]

Init ==
    /\ road \in Roads
    /\ out = << >>
    /\ last = NoCall

GetCrossfall(s, on_left_side) ==
    /\ last = NoCall
    /\ last' = [op |-> "get_crossfall", s |-> s, on_left_side |-> on_left_side,
                res |-> Crossfall_get_crossfall(road.crossfall, s, on_left_side)]
    /\ UNCHANGED <<road, out>>

GetLanesectionsConst ==
    /\ last = NoCall
    /\ last' = [op |-> "get_lanesections const", res |-> Road_get_lanesections(road)]
    /\ UNCHANGED <<road, out>>

GetLanesections ==
    /\ last = NoCall
    /\ last' = [op |-> "get_lanesections", res |-> Road_get_lanesections(road)]
    /\ UNCHANGED <<road, out>>

GetLanesectionConst(s) ==
    /\ last = NoCall
    /\ last' = [op |-> "get_lanesection const", s |-> s,
                res |-> Road_get_lanesection_const(road, s)]
    /\ UNCHANGED <<road, out>>

GetLanesection(s) ==
    /\ last = NoCall
    /\ last' = [op |-> "get_lanesection", s |-> s,
                res |-> Road_get_lanesection(road, s)]
    /\ UNCHANGED <<road, out>>

GetTransformationMatrix(s) ==
    /\ last = NoCall
    /\ last' = [op |-> "get_transformation_matrix", s |-> s,
                res |-> Road_get_transformation_matrix(road, s)]
    /\ UNCHANGED <<road, out>>

GetXyz(s, t, h) ==
    /\ last = NoCall
    /\ last' = [op |-> "get_xyz", s |-> s, t |-> t, h |-> h,
                res |-> Road_get_xyz(road, s, t, h)]
    /\ UNCHANGED <<road, out>>

SurfaceStep(s, t, r) ==
    /\ last = NoCall
    /\ Len(out) + Len(r.printed) <= MaxOut
    /\ out' = out \o r.printed
    /\ last' = [op |-> "get_surface_pt", s |-> s, t |-> t, res |-> r.xyz,
                lane |-> r.lane, h_lat |-> r.h_lat, h_off |-> r.h_off]
    /\ UNCHANGED road

GetSurfacePt(s, t) == SurfaceStep(s, t, Road_get_surface_pt(road, s, t))

\* the caller drops the returned value
Return ==
    /\ last # NoCall
    /\ last' = NoCall
    /\ UNCHANGED <<road, out>>

Next ==
    \/ \E s \in Stations, b \in BOOLEAN : GetCrossfall(s, b)
    \/ GetLanesectionsConst
    \/ GetLanesections
    \/ \E s \in Stations : GetLanesectionConst(s)
    \/ \E s \in Stations : GetLanesection(s)
    \/ \E s \in Stations : GetTransformationMatrix(s)
    \/ \E s \in Stations, t \in XyzLaterals, h \in Heights : GetXyz(s, t, h)
    \/ \E s \in Stations, t \in Laterals : GetSurfacePt(s, t)
    \/ Return

Spec == Init /\ [][Next]_vars

-----------------------------------------------------------------------------
(* Properties                                                              *)

\* the piece a lookup at s is to select: the greatest key <= s, the lowest
\* key when s is below every key
SelectedKey(m, s) ==
    LET le == {k \in DOMAIN m : RLeq(k, s)}
    IN  IF le # {} THEN CHOOSE k \in le : \A j \in le : RLeq(j, k)
        ELSE CHOOSE k \in DOMAIN m : \A j \in DOMAIN m : RLeq(k, j)

SideOf(cf, k) == IF k \in DOMAIN cf.sides THEN cf.sides[k] ELSE "Both"

LeftOnly ==
    [s_start_to_poly |-> Map1(Z(0), Const(Z(0), R(1, 20))), sides |-> Map1(Z(0), "Left")]

\* C1: on a non-empty crossfall get_crossfall(s, on_left_side) is 0 when the
\* selected piece is Right and on_left_side holds, or Left and it does not;
\* otherwise (Both, untagged, or the matching side) it is the piece's
\* polynomial at s.  A left-only piece of value 0.05 gives 0 on the right
\* and 0.05 on the left.
C1_CrossfallSides ==
    (last.op = "get_crossfall" /\ DOMAIN road.crossfall.s_start_to_poly # {}) =>
        LET k == SelectedKey(road.crossfall.s_start_to_poly, last.s)
            side == SideOf(road.crossfall, k)
            masked == \/ side = "Right" /\ last.on_left_side
                      \/ side = "Left" /\ ~last.on_left_side
        IN  /\ masked => last.res = Z(0)
            /\ ~masked => last.res = Poly3_get(road.crossfall.s_start_to_poly[k], last.s)
            /\ road.crossfall = LeftOnly =>
                  last.res = IF last.on_left_side THEN R(1, 20) ELSE Z(0)

C1_Witness ==
    /\ last.op = "get_crossfall"
    /\ DOMAIN road.crossfall.s_start_to_poly = {Z(0), Z(10)}
    /\ last.s = Z(15)
    /\ last.on_left_side
    /\ last.res = Z(0)

\* C2: get_lanesection(s) returns the section with the greatest start-s <= s,
\* the first section when s is below every start-s, and null exactly when the
\* road has no lane sections; the non-const overload returns the same section.
C2_LaneSectionLookup ==
    (last.op \in {"get_lanesection const", "get_lanesection"}) =>
        /\ (last.res = NullPtr) <=> (DOMAIN road.s_to_lanesection = {})
        /\ DOMAIN road.s_to_lanesection # {} =>
              last.res =
                 Ptr(road.s_to_lanesection[SelectedKey(road.s_to_lanesection, last.s)])

C2_Witness ==
    /\ last.op = "get_lanesection"
    /\ DOMAIN road.s_to_lanesection = {Z(0), Z(10)}
    /\ last.s = Z(-5)
    /\ last.res = Ptr(road.s_to_lanesection[Z(0)])

\* C3: when there is no lane section at s, get_surface_pt(s, t) writes exactly
\* one line naming the road id and s and returns get_xyz(s, t, 0), with no lane
\* consulted; when there is a lane section it writes nothing.
C3_MissingSectionFallback ==
    [][(last = NoCall /\ last'.op = "get_surface_pt") =>
          IF DOMAIN road.s_to_lanesection = {}
          THEN /\ Len(out') = Len(out) + 1
               /\ out' = Append(out, out'[Len(out')])
               /\ out'[Len(out')].road = road.id
               /\ Z(out'[Len(out')].s) = RMul(Z(100), last'.s)
               /\ last'.res = Road_get_xyz(road, last'.s, last'.t, Z(0))
               /\ last'.lane = NullPtr
          ELSE out' = out]_vars

C3_Witness ==
    /\ last.op = "get_surface_pt"
    /\ DOMAIN road.s_to_lanesection = {}
    /\ last.t = R(3, 2)
    /\ out = <<[road |-> road.id, s |-> 1500]>>

Column(m, j) == [i \in 1..3 |-> m[i][j]]

Dot3(a, b) == RAdd(RMul(a[1], b[1]), RAdd(RMul(a[2], b[2]), RMul(a[3], b[3])))

Det3(a, b, c) ==
    Dot3(a, <<RSub(RMul(b[2], c[3]), RMul(b[3], c[2])),
              RSub(RMul(b[3], c[1]), RMul(b[1], c[3])),
              RSub(RMul(b[1], c[2]), RMul(b[2], c[1]))>>)

Coefs(col) == <<col[1].c, col[2].c, col[3].c>>

\* a column whose entries share the radicand r and that has length 1
IsUnit(col) ==
    /\ col[1].r = col[2].r /\ col[2].r = col[3].r
    /\ Dot3(Coefs(col), Coefs(col)) = Z(col[1].r)

\* C4: the frame of get_transformation_matrix(s) has e_t . e_h = 0,
\* |e_t| = |e_h| = 1 and positive orientation (tangent, e_t, e_h), its third
\* column is ref_line.get_xyz(s), and get_xyz(s, t, h) = p0 + t*e_t + h*e_h.
C4_Frame ==
    /\ last.op = "get_transformation_matrix" =>
          LET e_t == Column(last.res, 1)
              e_h == Column(last.res, 2)
              p0 == Column(last.res, 3)
              g == RefLine_get_grad(road.ref_line, last.s).v
          IN  /\ IsUnit(e_t) /\ IsUnit(e_h)
              /\ Dot3(Coefs(e_t), Coefs(e_h)) = Z(0)
              /\ Det3(g, Coefs(e_t), Coefs(e_h))[1] > 0
              /\ Coefs(p0) = RefLine_get_xyz(road.ref_line, last.s).v
              /\ \A i \in 1..3 : p0[i].r = 1
    /\ last.op = "get_xyz" =>
          LET m == Road_get_transformation_matrix(road, last.s)
          IN  \A i \in 1..3 :
                 last.res[i] =
                    NumAdd(NumOf(m[i][3]),
                           NumAdd(NumOf([c |-> RMul(last.t, m[i][1].c), r |-> m[i][1].r]),
                                  NumOf([c |-> RMul(last.h, m[i][2].c), r |-> m[i][2].r])))

C4_Witness ==
    /\ last.op = "get_transformation_matrix"
    /\ road.ref_line = SlopedLine
    /\ CubicSpline_get(road.superelevation, last.s) = R(4, 5)
    /\ last.res[3][1].c # Z(0)

\* the value of a sum with at most one term lies strictly between lo and hi,
\* 0 <= lo < hi
Between(z, lo, hi) ==
    \E r \in DOMAIN z :
        /\ DOMAIN z = {r}
        /\ z[r][1] > 0
        /\ RLess(RMul(lo, lo), RDiv(RMul(z[r], z[r]), Z(r)))
        /\ RLess(RDiv(RMul(z[r], z[r]), Z(r)), RMul(hi, hi))

\* C5: on the straight road (Line from (0,0), heading 0, length 100) with zero
\* elevation and constant superelevation 0.1 rad, get_xyz(50, 1.5, 0).z is
\* about 1.5*sin(0.1) = 0.1496.
C5_SuperelevationLift ==
    (/\ last.op = "get_xyz"
     /\ road.ref_line = FlatLine
     /\ road.superelevation = Map1(Z(0), Const(Z(0), R(1, 10)))
     /\ last.s = Z(50) /\ last.t = R(3, 2) /\ last.h = Z(0)) =>
        Between(last.res[3], R(149, 1000), R(150, 1000))

\* the lane get_surface_pt worked on, when it found a lane section
OnLane == last.op = "get_surface_pt" /\ last.lane # NullPtr

TheLane == Deref(last.lane)

InnerAt == CubicSpline_get(TheLane.inner_border, last.s)

OuterAt == CubicSpline_get(TheLane.outer_border, last.s)

\* p_t = (t - t_in) / (t_out - t_in) when t_out # t_in, else 0
ParamAt ==
    IF OuterAt # InnerAt
    THEN RDiv(RSub(last.t, InnerAt), RSub(OuterAt, InnerAt))
    ELSE Z(0)

\* (1 - p) * a + p * b
Mix(p, a, b) == RAdd(RMul(RSub(Z(1), p), a), RMul(p, b))

\* the line through (k0, y0) and (k1, y1), at s
LineAt(k0, y0, k1, y1, s) ==
    RAdd(y0, RDiv(RMul(RSub(y1, y0), RSub(s, k0)), RSub(k1, k0)))

InExample ==
    /\ OnLane
    /\ TheLane.s_to_height_offset = ExampleOffsets
    /\ last.s = Z(5)
    /\ OuterAt # InnerAt
    /\ last.t = OuterAt

\* C6 as stated: with the offsets {0: (0, 0.1), 10: (0.05, 0.2)} the height
\* added for the offsets at s = 5, t = t_out is 0.175.
C6_ExampleAsStated == InExample => last.h_off = R(175, 1000)

\* C6 as amended: the height added there is 0.15, the outer offset
\* interpolated at s = 5.
C6_ExampleOuter == InExample => last.h_off = R(15, 100)

C6_Witness == InExample /\ TheLane.id = -1 /\ last.h_off = R(3, 20)

\* C7: before any height offset, a level lane has
\* h_t = -tan(alpha)*|t_in| + tan(phi)*(t - t_in), alpha the crossfall on the
\* lane's side and phi the superelevation at s; any other lane has
\* h_t = -tan(alpha)*|t|.  The returned point is get_xyz(s, t, h_t + offsets).
C7_LateralSlope ==
    OnLane =>
        LET alpha == Crossfall_get_crossfall(road.crossfall, last.s, TheLane.id > 0)
            phi == CubicSpline_get(road.superelevation, last.s)
        IN  /\ TheLane.level =>
                  last.h_lat = RAdd(RNeg(RMul(Tan(alpha), RAbs(InnerAt))),
                                    RMul(Tan(phi), RSub(last.t, InnerAt)))
            /\ ~TheLane.level =>
                  last.h_lat = RNeg(RMul(Tan(alpha), RAbs(last.t)))
            /\ last.res = Road_get_xyz(road, last.s, last.t, RAdd(last.h_lat, last.h_off))

C7_Witness ==
    /\ OnLane
    /\ TheLane.level
    /\ InnerAt # Z(0)
    /\ last.t # InnerAt
    /\ Crossfall_get_crossfall(road.crossfall, last.s, TheLane.id > 0) = R(-1, 10)
    /\ CubicSpline_get(road.superelevation, last.s) = R(1, 10)

\* C8 as stated: no query changes the road or performs I/O.
C8_PureAsStated == [][road' = road /\ out' = out]_vars

\* C8 as amended: no query changes the road, and the only output is the one
\* line get_surface_pt writes when the road has no lane section.
C8_PureButDiagnostic ==
    [][/\ road' = road
       /\ out' # out =>
             /\ last'.op = "get_surface_pt"
             /\ DOMAIN road.s_to_lanesection = {}
             /\ Len(out') = Len(out) + 1
             /\ SubSeq(out', 1, Len(out)) = out]_vars

C8_Witness ==
    /\ last.op = "get_lanesections"
    /\ Len(out) = 1
    /\ last.res = {}

\* the keys k0 < k1 of two consecutive entries
Consecutive(m, k0, k1) ==
    /\ k0 \in DOMAIN m /\ k1 \in DOMAIN m
    /\ RLess(k0, k1)
    /\ \A k \in DOMAIN m : ~(RLess(k0, k) /\ RLess(k, k1))

\* C9: for s_i <= s < s_(i+1) the height added for the offsets is
\* (1 - p_t)*I(s) + p_t*O(s), I and O the linear interpolations of the inner
\* and outer offsets; it is I(s) at t_in and on a lane of width zero, O(s) at
\* t_out, and at the key s_(i+1) entry i and entry i+1 give the same value.
C9_Interpolation ==
    OnLane =>
        LET m == TheLane.s_to_height_offset
        IN  \A k0, k1 \in DOMAIN m :
               Consecutive(m, k0, k1) =>
                  /\ (RLeq(k0, last.s) /\ RLess(last.s, k1)) =>
                        LET I == LineAt(k0, m[k0].inner, k1, m[k1].inner, last.s)
                            O == LineAt(k0, m[k0].outer, k1, m[k1].outer, last.s)
                        IN  /\ last.h_off = Mix(ParamAt, I, O)
                            /\ (last.t = InnerAt \/ OuterAt = InnerAt) => last.h_off = I
                            /\ (last.t = OuterAt /\ OuterAt # InnerAt) => last.h_off = O
                  /\ HeightOffsetAt(TheLane, k0, k1, last.t)
                        = HeightOffsetAt(TheLane, k1, k1, last.t)

C9_Witness ==
    /\ OnLane
    /\ DOMAIN TheLane.s_to_height_offset = {Z(5), Z(10), Z(15)}
    /\ last.s = Z(5)
    /\ ParamAt = R(1, 2)
    /\ last.h_off = R(1, 20)

\* C10: the height added for the offsets has no term in s exactly when the
\* selected entry has no successor; for s below the first key of a map with
\* two or more entries the first entry is selected and its line to the second
\* entry is followed backwards, beyond the first entry's values.
C10_Saturation ==
    (OnLane /\ DOMAIN TheLane.s_to_height_offset # {}) =>
        LET m == TheLane.s_to_height_offset
            k == SelectedKey(m, last.s)
            flat == Mix(ParamAt, m[k].inner, m[k].outer)
        IN  /\ (\A j \in DOMAIN m : RLeq(j, k)) => last.h_off = flat
            /\ \A k1 \in DOMAIN m :
                  Consecutive(m, k, k1) =>
                     /\ last.h_off =
                           RAdd(flat,
                                RMul(RSub(last.s, k),
                                     Mix(ParamAt,
                                         RDiv(RSub(m[k1].inner, m[k].inner), RSub(k1, k)),
                                         RDiv(RSub(m[k1].outer, m[k].outer), RSub(k1, k)))))
                     /\ RLess(last.s, k) => k = MapBegin(m)

C10_Witness ==
    /\ OnLane
    /\ TheLane.s_to_height_offset = ExampleOffsets
    /\ last.s = Z(-5)
    /\ last.t = InnerAt
    /\ last.h_off = R(-1, 40)

=============================================================================
